---- MODULE Spec2Model ----
(***************************************************************************)
(* A model of app/tool/email_sender.py: the EmailSender tool.              *)
(*                                                                         *)
(* execute() resolves the SMTP configuration, builds a MIME message,       *)
(* computes the recipient list and hands the blocking SMTP session to a    *)
(* worker thread (run_in_executor), whose steps (connect, STARTTLS, login, *)
(* sendmail, the with-block's exit) interleave with other calls.  Strings  *)
(* are TLA+ strings; an f-string is a concatenation with \o.               *)
(***************************************************************************)
EXTENDS Naturals, Sequences, FiniteSets, TLC

VARIABLES
    pc,            \* per call: where the call stands
    args,          \* per call: the arguments of execute
    config,        \* per call: app.config.config as the call finds it
    email_config,  \* per call: the EmailConfig execute resolved
    msg,           \* per call: the MIMEMultipart message
    recipients,    \* per call: the envelope recipient list
    smtp,          \* per call: the smtplib.SMTP connection: none, open, closed
    events,        \* per call: the transport steps taken, each with its outcome
    auth,          \* per call: the (user, password) pairs given to server.login
    sent,          \* per call: the (from, recipients, message) given to server.sendmail
    exc,           \* per call: the exception pending in the worker thread
    result,        \* per call: the EmailResult execute returned
    raised,        \* per call: the exception execute let propagate
    log            \* the shared logger sink

vars == <<pc, args, config, email_config, msg, recipients, smtp, events, auth,
          sent, exc, result, raised, log>>

(***************************************************************************)
(* Bounds and input values                                                 *)
(***************************************************************************)
\* the longest cc / bcc list
MaxList == 1

\* Python's None, where a string is optional
None == "<None>"

Addr == {"a@x.com", "b@x.com"}
Subjects == {"Hi"}
\* a lone surrogate code point, which no codec encodes
Surrogate == "<U+D800>"
Bodies == {"hello", "bad " \o Surrogate}

RECURSIVE SeqsUpTo(_, _)
SeqsUpTo(S, n) ==
    IF n = 0 THEN {<<>>}
    ELSE LET shorter == SeqsUpTo(S, n - 1)
         IN  shorter \cup {Append(s, x) : s \in shorter, x \in S}

\* Optional[List[str]]: None, or a list
NoList == [given |-> FALSE, items |-> <<>>]
SomeList(s) == [given |-> TRUE, items |-> s]
OptLists(n) == {NoList} \cup {SomeList(s) : s \in SeqsUpTo(Addr, n)}

\* a configuration attribute: absent, or a value of some Python type
Absent == [t |-> "absent", v |-> ""]
Str(s) == [t |-> "str", v |-> s]
Int(s) == [t |-> "int", v |-> s]
Bool(s) == [t |-> "bool", v |-> s]

RequiredFields == <<"smtp_server", "smtp_port", "smtp_username", "smtp_password">>

\* config without an email_config attribute
NoSection ==
    [has_email_config |-> FALSE, smtp_server |-> Absent, smtp_port |-> Absent,
     smtp_username |-> Absent, smtp_password |-> Absent, use_tls |-> Absent]

Section(server, port, user, pw, tls) ==
    [has_email_config |-> TRUE, smtp_server |-> server, smtp_port |-> port,
     smtp_username |-> user, smtp_password |-> pw, use_tls |-> tls]

TlsValues == {Absent, Bool("True"), Bool("False")}

Configs ==
    {NoSection} \cup
    {Section(s, p, u, w, t) :
        s \in {Absent, Str("smtp.example.com"), Int("25")},
        p \in {Absent, Int("587"), Str("abc")},
        u \in {Absent, Str("a@x.com"), Int("1")},
        w \in {Absent, Str("pw1"), Int("12345")},
        t \in TlsValues}

ArgsSet ==
    [to : Addr, subject : Subjects, body : Bodies,
     cc : OptLists(MaxList), bcc : OptLists(MaxList), is_html : BOOLEAN]

\* the inputs of two concurrent calls: the variety is in the configuration
PairArgs ==
    [to : Addr, subject : Subjects, body : {"hello"},
     cc : {NoList}, bcc : {NoList, SomeList(<<"b@x.com">>)}, is_html : {FALSE}]

PairConfigs ==
    {Section(Str("smtp.example.com"), Int("587"), Str("a@x.com"), w, Bool("True")) :
        w \in {Absent, Str("pw1"), Str("pw2"), Int("12345"), Int("67890")}}

(***************************************************************************)
(* Strings                                                                 *)
(***************************************************************************)
Contains(s, t) ==
    \E i \in 1..(Len(s) + 1 - Len(t)) : SubSeq(s, i, i + Len(t) - 1) = t

\* Python truthiness of an optional string
Truthy(s) == s # None /\ s # ""

\* ", ".join(items)
RECURSIVE Join(_)
Join(items) ==
    IF items = <<>> THEN ""
    ELSE IF Len(items) = 1 THEN items[1]
    ELSE items[1] \o ", " \o Join(Tail(items))

Range(s) == {s[i] : i \in DOMAIN s}

(***************************************************************************)
(* EmailConfig and the configuration resolver                              *)
(***************************************************************************)
Digits == {"0", "1", "2", "3", "4", "5", "6", "7", "8", "9"}
DigitValue(ch) ==
    CASE ch = "0" -> 0 [] ch = "1" -> 1 [] ch = "2" -> 2 [] ch = "3" -> 3
      [] ch = "4" -> 4 [] ch = "5" -> 5 [] ch = "6" -> 6 [] ch = "7" -> 7
      [] ch = "8" -> 8 [] ch = "9" -> 9

IsNumeric(s) == Len(s) > 0 /\ \A i \in 1..Len(s) : SubSeq(s, i, i) \in Digits

RECURSIVE ParseInt(_)
ParseInt(s) ==
    IF Len(s) = 0 THEN 0
    ELSE 10 * ParseInt(SubSeq(s, 1, Len(s) - 1)) + DigitValue(SubSeq(s, Len(s), Len(s)))

\* pydantic's validation of one field (lax mode): a str field takes only a str, an
\* int field an int or a string of digits, a bool field a bool
ValidStr(fv) == fv.t = "str"
ValidInt(fv) == fv.t = "int" \/ (fv.t = "str" /\ IsNumeric(fv.v))
ValidBool(fv) == fv.t = "bool"

\* one line of pydantic's ValidationError: it quotes the rejected input
ErrorLine(field, expected, fv) ==
    "; " \o field \o ": Input should be a valid " \o expected
         \o " [input_value=" \o fv.v \o ", input_type=" \o fv.t \o "]"

\* getattr(config.email_config, 'use_tls', True)
UseTlsAttr(cfg) == IF cfg.use_tls.t = "absent" THEN Bool("True") ELSE cfg.use_tls

\* the errors EmailConfig(...) collects over its five fields, "" when there are none
ValidationErrors(cfg) ==
    (IF ValidStr(cfg.smtp_server) THEN ""
     ELSE ErrorLine("smtp_server", "string", cfg.smtp_server))
    \o (IF ValidInt(cfg.smtp_port) THEN ""
        ELSE ErrorLine("smtp_port", "integer", cfg.smtp_port))
    \o (IF ValidStr(cfg.smtp_username) THEN ""
        ELSE ErrorLine("smtp_username", "string", cfg.smtp_username))
    \o (IF ValidStr(cfg.smtp_password) THEN ""
        ELSE ErrorLine("smtp_password", "string", cfg.smtp_password))
    \o (IF ValidBool(UseTlsAttr(cfg)) THEN ""
        ELSE ErrorLine("use_tls", "boolean", UseTlsAttr(cfg)))

\* class EmailConfig: the validated value
EmailConfig(cfg) ==
    [smtp_server |-> cfg.smtp_server.v,
     smtp_port |-> IF IsNumeric(cfg.smtp_port.v) THEN ParseInt(cfg.smtp_port.v) ELSE 0,
     smtp_username |-> cfg.smtp_username.v,
     smtp_password |-> cfg.smtp_password.v,
     use_tls |-> UseTlsAttr(cfg).v = "True"]

\* email_config before execute has resolved one
UnsetConfig ==
    [smtp_server |-> "", smtp_port |-> 0, smtp_username |-> "",
     smtp_password |-> "", use_tls |-> TRUE]

\* the required attributes config.email_config lacks, in the order the keyword
\* arguments of EmailConfig(...) read them
MissingFields(cfg) == SelectSeq(RequiredFields, LAMBDA f : cfg[f].t = "absent")

\* the resolver as a bug would have it: a missing password read with a default
GetEmailConfigDefaultPassword(cfg) ==
    LET filled == IF cfg.smtp_password.t = "absent"
                  THEN [cfg EXCEPT !.smtp_password = Str("")] ELSE cfg
    IN
    IF ~cfg.has_email_config
    THEN [kind |-> "none", value |-> UnsetConfig, error |-> None,
          logged |-> "Email configuration not found in app config"]
    ELSE IF MissingFields(filled) # <<>>
    THEN [kind |-> "none", value |-> UnsetConfig, error |-> None,
          logged |-> "Missing email configuration: object has no attribute '"
                     \o MissingFields(filled)[1] \o "'"]
    ELSE IF ValidationErrors(filled) # ""
    THEN [kind |-> "raise", value |-> UnsetConfig,
          error |-> "validation error for EmailConfig" \o ValidationErrors(filled),
          logged |-> None]
    ELSE [kind |-> "config", value |-> EmailConfig(filled), error |-> None,
          logged |-> None]

\* _get_email_config: kind "config" (an EmailConfig returned), "none" (None
\* returned, after the AttributeError or the hasattr test) or "raise" (pydantic's
\* ValidationError, which `except AttributeError` does not catch)
GetEmailConfig(cfg) ==
    IF ~cfg.has_email_config
    THEN [kind |-> "none", value |-> UnsetConfig, error |-> None,
          logged |-> "Email configuration not found in app config"]
    ELSE IF MissingFields(cfg) # <<>>
    THEN [kind |-> "none", value |-> UnsetConfig, error |-> None,
          logged |-> "Missing email configuration: object has no attribute '"
                     \o MissingFields(cfg)[1] \o "'"]
    ELSE IF ValidationErrors(cfg) # ""
    THEN [kind |-> "raise", value |-> UnsetConfig,
          error |-> "validation error for EmailConfig" \o ValidationErrors(cfg),
          logged |-> None]
    ELSE [kind |-> "config", value |-> EmailConfig(cfg), error |-> None,
          logged |-> None]

(***************************************************************************)
(* EmailResult                                                             *)
(***************************************************************************)
\* populate_output with the two status words exchanged
PopulateOutputSwapped(r) ==
    IF Truthy(r.error) THEN r
    ELSE [r EXCEPT !.output =
            "Email to " \o r.recipient \o " with subject '" \o r.subject \o "' was "
            \o (IF r.message_sent THEN "failed to be" ELSE "successfully") \o " sent."]

\* EmailResult.populate_output, the model validator run after construction
PopulateOutput(r) ==
    IF Truthy(r.error) THEN r
    ELSE [r EXCEPT !.output =
            "Email to " \o r.recipient \o " with subject '" \o r.subject \o "' was "
            \o (IF r.message_sent THEN "successfully" ELSE "failed to be") \o " sent."]

\* EmailResult(recipient=..., subject=..., message_sent=..., error=...)
EmailResult(recipient, subject, message_sent, error) ==
    PopulateOutput([recipient |-> recipient, subject |-> subject,
                    message_sent |-> message_sent, error |-> error, output |-> None])

\* result before the call has returned
NoResult ==
    [recipient |-> None, subject |-> None, message_sent |-> FALSE,
     error |-> None, output |-> None]

(***************************************************************************)
(* The message and the recipient list                                      *)
(***************************************************************************)
\* Optional[List[str]] in `if cc:`
ListTruthy(l) == l.given /\ l.items # <<>>

\* MIMEText(body, subtype) encodes the body (us-ascii, then utf-8) and raises
\* UnicodeEncodeError on a lone surrogate
Encodable(body) == ~Contains(body, Surrogate)

\* the message with a Bcc header added, as a bug would have it
BuildMessageWithBcc(ec, a) ==
    [headers |->
        <<[name |-> "Content-Type", value |-> "multipart/mixed"],
          [name |-> "MIME-Version", value |-> "1.0"],
          [name |-> "From", value |-> ec.smtp_username],
          [name |-> "To", value |-> a.to],
          [name |-> "Subject", value |-> a.subject]>>
        \o (IF ListTruthy(a.cc)
            THEN <<[name |-> "Cc", value |-> Join(a.cc.items)]>> ELSE <<>>)
        \o (IF ListTruthy(a.bcc)
            THEN <<[name |-> "Bcc", value |-> Join(a.bcc.items)]>> ELSE <<>>),
     content_type |-> IF a.is_html THEN "html" ELSE "plain",
     payload |-> a.body]

\* execute, lines 114-126: MIMEMultipart() with From, To, Subject, Cc when cc is
\* given, and the body attached as text/plain or text/html
BuildMessage(ec, a) ==
    [headers |->
        <<[name |-> "Content-Type", value |-> "multipart/mixed"],
          [name |-> "MIME-Version", value |-> "1.0"],
          [name |-> "From", value |-> ec.smtp_username],
          [name |-> "To", value |-> a.to],
          [name |-> "Subject", value |-> a.subject]>>
        \o (IF ListTruthy(a.cc)
            THEN <<[name |-> "Cc", value |-> Join(a.cc.items)]>> ELSE <<>>),
     content_type |-> IF a.is_html THEN "html" ELSE "plain",
     payload |-> a.body]

\* msg before execute has built one
NoMessage == [headers |-> <<>>, content_type |-> None, payload |-> None]

\* msg[name]: the first header of that name, None when there is none
Header(m, name) ==
    LET hits == SelectSeq(m.headers, LAMBDA h : h.name = name)
    IN  IF hits = <<>> THEN None ELSE hits[1].value

\* execute, lines 128-133: [to] + cc + bcc
Recipients(a) ==
    <<a.to>> \o (IF ListTruthy(a.cc) THEN a.cc.items ELSE <<>>)
             \o (IF ListTruthy(a.bcc) THEN a.bcc.items ELSE <<>>)

(***************************************************************************)
(* The transport: smtplib.SMTP as _send drives it                          *)
(***************************************************************************)
OK == "ok"
ConnectError == "[Errno 111] Connection refused"
TlsError == "STARTTLS extension not supported by server."
LoginError == "(535, 'Authentication failed')"
SendError == "(550, 'Recipient rejected')"
\* QUIT answered by something other than 221: SMTPResponseException
QuitRejected == "(421, 'Service not available')"
\* QUIT on a connection the server dropped: SMTPServerDisconnected
Disconnected == "Connection unexpectedly closed"

Event(op, outcome) == [op |-> op, outcome |-> outcome]

\* the step after a connection that skips STARTTLS whatever the configuration says
AfterConnectNoTls(ec) == "smtp_login"

\* _send, line 174: `if email_config.use_tls: server.starttls()`
AfterConnect(ec) == IF ec.use_tls THEN "smtp_starttls" ELSE "smtp_login"

\* a connection closed only when QUIT went through
ConnectionAfterExitLeaky(q) == IF q = QuitRejected THEN "open" ELSE "closed"

\* SMTP.__exit__: `finally: self.close()`
ConnectionAfterExit(q) == "closed"

\* SMTP.__exit__: a QUIT answered by another code than 221 raises, and replaces the
\* exception the block was leaving with; SMTPServerDisconnected is swallowed
ExceptionAfterExit(pending, q) == IF q = QuitRejected THEN q ELSE pending

\* a failure result that carries no error
SendResultNoError(m, e) ==
    EmailResult(Header(m, "To"), Header(m, "Subject"), e = None, None)

\* _send_email_async, lines 179-195: the result for a worker that ended with the
\* exception text e, None when it ended normally
SendResult(m, e) ==
    IF e = None
    THEN EmailResult(Header(m, "To"), Header(m, "Subject"), TRUE, None)
    ELSE EmailResult(Header(m, "To"), Header(m, "Subject"), FALSE,
                     "Error sending email: " \o e)

\* _send_email_async, lines 182 and 189: what it logs
SendLog(c, m, e) ==
    IF e = None
    THEN [call |-> c, level |-> "info",
          text |-> "Email sent successfully to " \o Header(m, "To")
                   \o " with subject '" \o Header(m, "Subject") \o "'"]
    ELSE [call |-> c, level |-> "error", text |-> "Error sending email: " \o e]

\* an error remembered across calls: any call's failure fails this one
WorkerExceptionShared(c) ==
    LET failed == {d \in DOMAIN exc : exc[d] # None}
    IN  IF failed = {} THEN None ELSE exc[CHOOSE d \in failed : TRUE]

\* line 181: awaiting the call's own future gives the call's own worker's exception
WorkerException(c) == exc[c]

NoException == [type |-> None, text |-> None]

ConfigErrorText == "Email configuration is missing or incomplete in app config."

(***************************************************************************)
(* Initial states                                                          *)
(***************************************************************************)
InitCalls(calls, A, C) ==
    /\ pc = [c \in calls |-> "start"]
    /\ args \in [calls -> A]
    /\ config \in [calls -> C]
    /\ email_config = [c \in calls |-> UnsetConfig]
    /\ msg = [c \in calls |-> NoMessage]
    /\ recipients = [c \in calls |-> <<>>]
    /\ smtp = [c \in calls |-> "none"]
    /\ events = [c \in calls |-> <<>>]
    /\ auth = [c \in calls |-> <<>>]
    /\ sent = [c \in calls |-> <<>>]
    /\ exc = [c \in calls |-> None]
    /\ result = [c \in calls |-> NoResult]
    /\ raised = [c \in calls |-> NoException]
    /\ log = <<>>

\* one call, over every argument and configuration
Init == InitCalls({1}, ArgsSet, Configs)

\* two calls in flight at once
InitPair == InitCalls({1, 2}, PairArgs, PairConfigs)

Calls == DOMAIN pc

(***************************************************************************)
(* execute, up to its return or its await                                  *)
(***************************************************************************)
\* lines 105-112: no configuration, the failure result at once
ExecuteNoConfig(c) ==
    /\ pc[c] = "start"
    /\ GetEmailConfig(config[c]).kind = "none"
    /\ log' = Append(log, [call |-> c, level |-> "error",
                           text |-> GetEmailConfig(config[c]).logged])
    /\ result' = [result EXCEPT ![c] =
                    EmailResult(args[c].to, args[c].subject, FALSE, ConfigErrorText)]
    /\ pc' = [pc EXCEPT ![c] = "done"]
    /\ UNCHANGED <<args, config, email_config, msg, recipients, smtp, events,
                   auth, sent, exc, raised>>

\* lines 105 and 126, outside every try: the ValidationError of EmailConfig(...) and
\* the UnicodeEncodeError of MIMEText(body, ...) leave execute
ExecuteRaises(c) ==
    /\ pc[c] = "start"
    /\ LET r == GetEmailConfig(config[c])
       IN  /\ r.kind = "raise" \/ (r.kind = "config" /\ ~Encodable(args[c].body))
           /\ raised' = [raised EXCEPT ![c] =
                IF r.kind = "raise"
                THEN [type |-> "ValidationError", text |-> r.error]
                ELSE [type |-> "UnicodeEncodeError",
                      text |-> "'utf-8' codec can't encode characters: surrogates not allowed"]]
           /\ email_config' = [email_config EXCEPT ![c] =
                IF r.kind = "config" THEN r.value ELSE @]
    /\ pc' = [pc EXCEPT ![c] = "raised"]
    /\ UNCHANGED <<args, config, msg, recipients, smtp, events, auth, sent, exc,
                   result, log>>

\* lines 105-137: configuration resolved, message built, recipients computed, _send
\* handed to the executor
ExecuteDispatch(c) ==
    /\ pc[c] = "start"
    /\ GetEmailConfig(config[c]).kind = "config"
    /\ Encodable(args[c].body)
    /\ email_config' = [email_config EXCEPT ![c] = GetEmailConfig(config[c]).value]
    /\ msg' = [msg EXCEPT ![c] = BuildMessage(GetEmailConfig(config[c]).value, args[c])]
    /\ recipients' = [recipients EXCEPT ![c] = Recipients(args[c])]
    /\ pc' = [pc EXCEPT ![c] = "smtp_connect"]
    /\ UNCHANGED <<args, config, smtp, events, auth, sent, exc, result, raised, log>>

(***************************************************************************)
(* _send, in the worker thread                                             *)
(***************************************************************************)
\* line 173: smtplib.SMTP(server, port); a failed constructor leaves no connection
SmtpConnect(c) ==
    /\ pc[c] = "smtp_connect"
    /\ \E o \in {OK, ConnectError} :
        /\ events' = [events EXCEPT ![c] = Append(@, Event("connect", o))]
        /\ smtp' = [smtp EXCEPT ![c] = IF o = OK THEN "open" ELSE @]
        /\ exc' = [exc EXCEPT ![c] = IF o = OK THEN @ ELSE o]
        /\ pc' = [pc EXCEPT ![c] =
                    IF o = OK THEN AfterConnect(email_config[c]) ELSE "awaiting"]
    /\ UNCHANGED <<args, config, email_config, msg, recipients, auth, sent,
                   result, raised, log>>

\* line 175: server.starttls()
SmtpStarttls(c) ==
    /\ pc[c] = "smtp_starttls"
    /\ \E o \in {OK, TlsError} :
        /\ events' = [events EXCEPT ![c] = Append(@, Event("starttls", o))]
        /\ exc' = [exc EXCEPT ![c] = IF o = OK THEN @ ELSE o]
        /\ pc' = [pc EXCEPT ![c] = IF o = OK THEN "smtp_login" ELSE "smtp_exit"]
    /\ UNCHANGED <<args, config, email_config, msg, recipients, smtp, auth, sent,
                   result, raised, log>>

\* line 176: server.login(smtp_username, smtp_password)
SmtpLogin(c) ==
    /\ pc[c] = "smtp_login"
    /\ \E o \in {OK, LoginError} :
        /\ events' = [events EXCEPT ![c] = Append(@, Event("login", o))]
        /\ exc' = [exc EXCEPT ![c] = IF o = OK THEN @ ELSE o]
        /\ pc' = [pc EXCEPT ![c] = IF o = OK THEN "smtp_sendmail" ELSE "smtp_exit"]
    /\ auth' = [auth EXCEPT ![c] =
                  Append(@, [user |-> email_config[c].smtp_username,
                             password |-> email_config[c].smtp_password])]
    /\ UNCHANGED <<args, config, email_config, msg, recipients, smtp, sent,
                   result, raised, log>>

\* line 177: server.sendmail(smtp_username, recipients, msg.as_string())
SmtpSendmail(c) ==
    /\ pc[c] = "smtp_sendmail"
    /\ \E o \in {OK, SendError} :
        /\ events' = [events EXCEPT ![c] = Append(@, Event("sendmail", o))]
        /\ exc' = [exc EXCEPT ![c] = IF o = OK THEN @ ELSE o]
    /\ sent' = [sent EXCEPT ![c] =
                  Append(@, [from_addr |-> email_config[c].smtp_username,
                             to_addrs |-> recipients[c], message |-> msg[c]])]
    /\ pc' = [pc EXCEPT ![c] = "smtp_exit"]
    /\ UNCHANGED <<args, config, email_config, msg, recipients, smtp, auth,
                   result, raised, log>>

\* line 173, leaving the with block: SMTP.__exit__ sends QUIT and closes
SmtpExit(c) ==
    /\ pc[c] = "smtp_exit"
    /\ \E q \in {OK, Disconnected, QuitRejected} :
        /\ events' = [events EXCEPT ![c] = Append(@, Event("quit", q))]
        /\ smtp' = [smtp EXCEPT ![c] = ConnectionAfterExit(q)]
        /\ exc' = [exc EXCEPT ![c] = ExceptionAfterExit(@, q)]
    /\ pc' = [pc EXCEPT ![c] = "awaiting"]
    /\ UNCHANGED <<args, config, email_config, msg, recipients, auth, sent,
                   result, raised, log>>

(***************************************************************************)
(* _send_email_async after the await, and execute's return of its result   *)
(***************************************************************************)
\* lines 181-195 and 137.  _send_email_async catches every Exception of the
\* worker, so the handler of lines 138-145 has nothing to catch.
SendReturn(c) ==
    /\ pc[c] = "awaiting"
    /\ log' = Append(log, SendLog(c, msg[c], WorkerException(c)))
    /\ result' = [result EXCEPT ![c] = SendResult(msg[c], WorkerException(c))]
    /\ pc' = [pc EXCEPT ![c] = "done"]
    /\ UNCHANGED <<args, config, email_config, msg, recipients, smtp, events,
                   auth, sent, exc, raised>>

Next ==
    \/ \E c \in Calls : ExecuteNoConfig(c)
    \/ \E c \in Calls : ExecuteRaises(c)
    \/ \E c \in Calls : ExecuteDispatch(c)
    \/ \E c \in Calls : SmtpConnect(c)
    \/ \E c \in Calls : SmtpStarttls(c)
    \/ \E c \in Calls : SmtpLogin(c)
    \/ \E c \in Calls : SmtpSendmail(c)
    \/ \E c \in Calls : SmtpExit(c)
    \/ \E c \in Calls : SendReturn(c)

Spec == Init /\ [][Next]_vars

SpecPair == InitPair /\ [][Next]_vars

(***************************************************************************)
(* Vocabulary of the properties                                            *)
(***************************************************************************)
Finished(c) == pc[c] \in {"done", "raised"}

\* the configuration lacks the section or one of the four required attributes
MissingRequired(cfg) ==
    \/ ~cfg.has_email_config
    \/ \E i \in DOMAIN RequiredFields : cfg[RequiredFields[i]].t = "absent"

\* a required attribute is there with a value of another type than its field's
WrongType(cfg) ==
    /\ cfg.has_email_config
    /\ \/ cfg.smtp_server.t \notin {"absent", "str"}
       \/ cfg.smtp_port.t \notin {"absent", "int"}
       \/ cfg.smtp_username.t \notin {"absent", "str"}
       \/ cfg.smtp_password.t \notin {"absent", "str"}

TransportSteps == {"connect", "starttls", "login", "sendmail"}

\* every step of the session, QUIT included, went through
TransportSucceeded(c) ==
    /\ events[c] # <<>>
    /\ \A i \in DOMAIN events[c] : events[c][i].outcome = OK
    /\ events[c][Len(events[c])].op = "quit"

\* connection, TLS upgrade, authentication or transmission failed
TransportFailed(c) ==
    \E i \in DOMAIN events[c] :
        events[c][i].op \in TransportSteps /\ events[c][i].outcome # OK

SuccessOutput(a) ==
    "Email to " \o a.to \o " with subject '" \o a.subject \o "' was successfully sent."

SuccessResult(a) ==
    [recipient |-> a.to, subject |-> a.subject, message_sent |-> TRUE,
     error |-> None, output |-> SuccessOutput(a)]

BccItems(a) == IF a.bcc.given THEN Range(a.bcc.items) ELSE {}
CcItems(a) == IF a.cc.given THEN Range(a.cc.items) ELSE {}

\* what the logger got from call c
LogOf(c) == SelectSeq(log, LAMBDA e : e.call = c)
LogTexts(c) == [i \in DOMAIN LogOf(c) |-> <<LogOf(c)[i].level, LogOf(c)[i].text>>]

(***************************************************************************)
(* C1: every call of execute ends by returning an EmailResult; no failure  *)
(* of the message building, the recipient computation or the dispatch      *)
(* leaves execute as an exception.                                         *)
(***************************************************************************)
C1_ExecuteNeverRaises ==
    \A c \in Calls :
        /\ pc[c] # "raised"
        /\ raised[c] = NoException
        /\ pc[c] = "done" => result[c] # NoResult

(***************************************************************************)
(* C2: the resolver never throws: with the section absent, or a required   *)
(* field absent or of the wrong type, it returns no config and execute     *)
(* returns a structured failure.                                           *)
(***************************************************************************)
C2_ResolverNeverThrows ==
    \A c \in Calls :
        (pc[c] # "start" /\ (MissingRequired(config[c]) \/ WrongType(config[c])))
            => /\ GetEmailConfig(config[c]).kind = "none"
               /\ pc[c] = "done"
               /\ raised[c] = NoException
               /\ result[c].message_sent = FALSE
               /\ result[c].error = ConfigErrorText

(***************************************************************************)
(* C3: with smtp_server, smtp_port, smtp_username or smtp_password missing *)
(* execute returns message_sent = false with the configuration error at    *)
(* once, and the transport is never invoked: no connection, TLS upgrade,   *)
(* login or send.                                                          *)
(***************************************************************************)
C3_MissingConfigNoTransport ==
    \A c \in Calls :
        (pc[c] # "start" /\ MissingRequired(config[c]))
            => /\ pc[c] = "done"
               /\ result[c].message_sent = FALSE
               /\ result[c].error = ConfigErrorText
               /\ result[c].recipient = args[c].to
               /\ result[c].subject = args[c].subject
               /\ events[c] = <<>>
               /\ auth[c] = <<>>
               /\ sent[c] = <<>>
               /\ smtp[c] = "none"

C3_Witness ==
    \E c \in Calls :
        /\ pc[c] = "done"
        /\ config[c].has_email_config
        /\ config[c].smtp_password = Absent
        /\ config[c].smtp_server # Absent
        /\ config[c].smtp_port # Absent
        /\ config[c].smtp_username # Absent

(***************************************************************************)
(* C4: when the transport completes every step, execute returns            *)
(* message_sent = true, no error, recipient = to, subject = subject and    *)
(* output = "Email to {to} with subject '{subject}' was successfully       *)
(* sent.".                                                                 *)
(***************************************************************************)
C4_SuccessResult ==
    \A c \in Calls :
        (pc[c] = "done" /\ TransportSucceeded(c)) => result[c] = SuccessResult(args[c])

C4_Witness ==
    \E c \in Calls :
        /\ pc[c] = "done"
        /\ TransportSucceeded(c)
        /\ args[c].to = "b@x.com"
        /\ result[c].output = "Email to b@x.com with subject 'Hi' was successfully sent."

(***************************************************************************)
(* C5: when connection, TLS upgrade, authentication or transmission fails, *)
(* execute returns message_sent = false with a non-empty error and without *)
(* the success text in output, and the failure is terminal: no step other  *)
(* than the closing QUIT follows it, and there is no second connection or  *)
(* send.                                                                   *)
(***************************************************************************)
C5_FailureResult ==
    \A c \in Calls :
        /\ (pc[c] = "done" /\ TransportFailed(c))
            => /\ result[c].message_sent = FALSE
               /\ Truthy(result[c].error)
               /\ result[c].output # SuccessOutput(args[c])
               /\ result[c].output = None
        /\ \A i, j \in DOMAIN events[c] :
            (i < j /\ events[c][i].outcome # OK) => events[c][j].op = "quit"
        /\ Cardinality({i \in DOMAIN events[c] : events[c][i].op = "connect"}) <= 1
        /\ Len(sent[c]) <= 1

C5_Witness ==
    \E c \in Calls :
        /\ pc[c] = "done"
        /\ Event("login", LoginError) \in Range(events[c])
        /\ result[c].error = "Error sending email: " \o LoginError

(***************************************************************************)
(* C6, as claimed: every BCC address is in the recipient list given to the *)
(* transport's send, and no BCC address appears in any header of the       *)
(* message, whatever to, cc and bcc are.                                   *)
(***************************************************************************)
C6_BccInNoHeader ==
    \A c \in Calls : \A b \in BccItems(args[c]) :
        /\ \A i \in DOMAIN sent[c] : b \in Range(sent[c][i].to_addrs)
        /\ \A i \in DOMAIN msg[c].headers : ~Contains(msg[c].headers[i].value, b)

(***************************************************************************)
(* C6, amended: every BCC address is in the recipient list given to the    *)
(* transport's send; the message has no Bcc header and its headers are     *)
(* From = smtp_username, To = to, Subject = subject and, when cc is not    *)
(* empty, Cc = the cc addresses joined by ", ", beside the MIME headers of *)
(* the container; so a BCC address shows in a header only where it also    *)
(* occurs in smtp_username, to, subject or cc.                             *)
(***************************************************************************)
C6_BccOnlyInEnvelope ==
    \A c \in Calls :
        /\ \A b \in BccItems(args[c]) :
            /\ \A i \in DOMAIN sent[c] : b \in Range(sent[c][i].to_addrs)
            /\ \A i \in DOMAIN msg[c].headers :
                LET h == msg[c].headers[i]
                IN  (h.name \in {"From", "To", "Subject", "Cc"} /\ Contains(h.value, b))
                        => \/ Contains(email_config[c].smtp_username, b)
                           \/ Contains(args[c].to, b)
                           \/ Contains(args[c].subject, b)
                           \/ \E x \in CcItems(args[c]) : Contains(x, b)
        /\ \A i \in DOMAIN msg[c].headers :
            msg[c].headers[i].name \in
                {"Content-Type", "MIME-Version", "From", "To", "Subject", "Cc"}
        /\ msg[c] # NoMessage
            => /\ Header(msg[c], "From") = email_config[c].smtp_username
               /\ Header(msg[c], "To") = args[c].to
               /\ Header(msg[c], "Subject") = args[c].subject
               /\ Header(msg[c], "Cc") =
                    (IF ListTruthy(args[c].cc) THEN Join(args[c].cc.items) ELSE None)
        /\ \A i \in DOMAIN sent[c] :
            /\ sent[c][i].to_addrs = Recipients(args[c])
            /\ sent[c][i].message = msg[c]

C6_Witness ==
    \E c \in Calls :
        /\ args[c].to = "a@x.com"
        /\ args[c].bcc = SomeList(<<"a@x.com">>)
        /\ args[c].cc = SomeList(<<"b@x.com">>)
        /\ Len(sent[c]) = 1
        /\ sent[c][1].to_addrs = <<"a@x.com", "b@x.com", "a@x.com">>
        /\ Header(sent[c][1].message, "To") = "a@x.com"

(***************************************************************************)
(* C7: calls are independent.  A call's result follows from its own        *)
(* arguments, configuration and transport outcome: it reports a sent       *)
(* message exactly when its own session raised nothing; two calls with the *)
(* same arguments, configuration and transport outcome end alike; and a    *)
(* call whose transport succeeded returns the successful result whether    *)
(* the other call, with the same arguments, succeeded or failed.           *)
(***************************************************************************)
\* the exception call c's own session ended with: a failed step, or a rejected QUIT
OwnFailure(c) ==
    \E i \in DOMAIN events[c] : events[c][i].outcome \notin {OK, Disconnected}

C7_CallsIndependent ==
    \A c \in Calls :
        /\ (pc[c] = "done" /\ events[c] # <<>>)
            => /\ result[c].message_sent = ~OwnFailure(c)
               /\ result[c].recipient = args[c].to
               /\ result[c].subject = args[c].subject
        /\ (pc[c] = "done" /\ TransportSucceeded(c)) => result[c] = SuccessResult(args[c])
        /\ \A d \in Calls :
            (/\ Finished(c) /\ Finished(d)
             /\ args[c] = args[d] /\ config[c] = config[d] /\ events[c] = events[d])
                => /\ pc[c] = pc[d]
                   /\ result[c] = result[d]
                   /\ raised[c] = raised[d]
                   /\ LogTexts(c) = LogTexts(d)

C7_Witness ==
    \E c, d \in Calls :
        /\ c # d
        /\ args[c] = args[d]
        /\ config[c] = config[d]
        /\ pc[c] = "done" /\ TransportFailed(c) /\ result[c].message_sent = FALSE
        /\ pc[d] = "done" /\ TransportSucceeded(d) /\ result[d] = SuccessResult(args[d])

(***************************************************************************)
(* C8: the SMTP password reaches neither the caller nor the log: two runs  *)
(* of execute that differ only in the configured smtp_password and see the *)
(* same transport outcomes hand their callers the same EmailResult (and    *)
(* nothing else) and log the same messages.                                *)
(***************************************************************************)
\* both configurations have the section and a password, and agree on the rest
DifferOnlyInPassword(x, y) ==
    /\ x.has_email_config /\ y.has_email_config
    /\ x.smtp_password # Absent /\ y.smtp_password # Absent
    /\ [x EXCEPT !.smtp_password = Absent] = [y EXCEPT !.smtp_password = Absent]

\* wherever both runs used the transport, it answered them alike
SameTransportOutcomes(c, d) ==
    \A i \in (DOMAIN events[c]) \cap (DOMAIN events[d]) : events[c][i] = events[d][i]

C8_PasswordNeverObservable ==
    \A c, d \in Calls :
        (/\ Finished(c) /\ Finished(d)
         /\ args[c] = args[d]
         /\ DifferOnlyInPassword(config[c], config[d])
         /\ SameTransportOutcomes(c, d))
            => /\ result[c] = result[d]
               /\ raised[c] = raised[d]
               /\ LogTexts(c) = LogTexts(d)

\* the part of C8 the code keeps: with both passwords strings, neither the result
\* nor the log tells them apart
PasswordConfinedWhenString ==
    \A c, d \in Calls :
        (/\ Finished(c) /\ Finished(d)
         /\ args[c] = args[d]
         /\ DifferOnlyInPassword(config[c], config[d])
         /\ config[c].smtp_password.t = "str" /\ config[d].smtp_password.t = "str"
         /\ SameTransportOutcomes(c, d))
            => /\ pc[c] = "done" /\ pc[d] = "done"
               /\ result[c] = result[d]
               /\ LogTexts(c) = LogTexts(d)

(***************************************************************************)
(* C9: within a session the steps go connect, STARTTLS (exactly when       *)
(* use_tls), login, sendmail: with use_tls no login before a successful    *)
(* STARTTLS, no sendmail before a successful login; after a failed         *)
(* STARTTLS neither login nor sendmail happens and the call returns        *)
(* message_sent = false; without use_tls no STARTTLS is attempted.         *)
(***************************************************************************)
C9_SessionOrder ==
    \A c \in Calls :
        LET E == events[c]
            tls == email_config[c].use_tls
        IN  /\ \A i \in DOMAIN E : E[i].op = "connect" => i = 1
            /\ \A i \in DOMAIN E :
                E[i].op = "starttls" => (tls /\ i = 2 /\ E[1] = Event("connect", OK))
            /\ \A i \in DOMAIN E :
                E[i].op = "login"
                    => IF tls
                       THEN \E j \in 1..(i - 1) : E[j] = Event("starttls", OK)
                       ELSE \E j \in 1..(i - 1) : E[j] = Event("connect", OK)
            /\ \A i \in DOMAIN E :
                E[i].op = "sendmail" => \E j \in 1..(i - 1) : E[j] = Event("login", OK)
            /\ \A j \in DOMAIN E :
                E[j] = Event("starttls", TlsError)
                    => /\ \A i \in DOMAIN E : i > j => E[i].op \notin {"login", "sendmail"}
                       /\ auth[c] = <<>> /\ sent[c] = <<>>
                       /\ pc[c] = "done" => result[c].message_sent = FALSE
            /\ ~tls => \A i \in DOMAIN E : E[i].op # "starttls"

C9_Witness ==
    \E c \in Calls :
        /\ pc[c] = "done"
        /\ email_config[c].use_tls
        /\ events[c] = <<Event("connect", OK), Event("starttls", OK), Event("login", OK),
                         Event("sendmail", OK), Event("quit", OK)>>

(***************************************************************************)
(* C10: every SMTP connection a call opened is closed before the call      *)
(* returns its EmailResult, after a successful send and after a failed     *)
(* STARTTLS, login or sendmail: no finished call leaves a connection open. *)
(***************************************************************************)
C10_ConnectionClosed ==
    \A c \in Calls :
        pc[c] \in {"awaiting", "done"}
            => /\ smtp[c] # "open"
               /\ Event("connect", OK) \in Range(events[c]) => smtp[c] = "closed"

C10_Witness ==
    \E c \in Calls :
        /\ pc[c] = "done"
        /\ Event("sendmail", SendError) \in Range(events[c])
        /\ Event("quit", QuitRejected) \in Range(events[c])
        /\ smtp[c] = "closed"
====
